---------------------------- MODULE Spec2Model ----------------------------
(***************************************************************************)
(* Tracker featurization of rasa.core.featurizers: TrackerFeaturizer and   *)
(* its two windowing variants, FullDialogueTrackerFeaturizer and           *)
(* MaxHistoryTrackerFeaturizer, driven by a caller that invokes            *)
(* featurize_trackers and create_X on one featurizer object.               *)
(*                                                                         *)
(* A Python dict is a sequence of <<key, weight>> pairs with distinct keys *)
(* in insertion order.  Optional values are records with an isNone flag.   *)
(* Lists of states produced by _create_states live on a heap (one list of  *)
(* dict objects per tracker); windows hold references <<i, j>> into it, so *)
(* that a dict shared by several windows is one object.                    *)
(* Weights are probabilities in units of 1/MaxWeight: MaxWeight is 1.0.    *)
(***************************************************************************)
EXTENDS Integers, Sequences, FiniteSets

VARIABLES
    variant,                 \* class of the featurizer object
    max_history,             \* MaxHistoryTrackerFeaturizer.max_history
    remove_duplicates,       \* MaxHistoryTrackerFeaturizer.remove_duplicates
    use_intent_probabilities,\* TrackerFeaturizer.use_intent_probabilities
    state_featurizer,        \* TRUE iff self.state_featurizer is not None
    calibrated,              \* TRUE iff the state featurizer has been trained
    max_len,                 \* FullDialogueTrackerFeaturizer.max_len: <<>> is None, <<n>> is n
    op,                      \* name of the call that returned last, "none" when idle
    arg,                     \* the trackers handed to that call
    is_binary_training,      \* the is_binary_training argument of a direct _create_states call
    ret,                     \* what that call produced and the trackers after it (see NoRet)
    encode_uncalibrated      \* TRUE iff that call invoked encode on an untrained featurizer

vars == <<variant, max_history, remove_duplicates, use_intent_probabilities,
          state_featurizer, calibrated, max_len, op, arg, is_binary_training,
          ret, encode_uncalibrated>>

config == <<variant, max_history, remove_duplicates, use_intent_probabilities,
            state_featurizer>>

---------------------------------------------------------------------------
(* Bounds of the model *)

MaxTrackers == 2     \* trackers in one batch
MaxTurns == 3        \* ActionExecuted events in one batch, over all its trackers
MaxHistoryBound == 2 \* largest max_history a featurizer is constructed with
MaxWeight == 2       \* weights are k / MaxWeight, k in 0..MaxWeight
MaxFeatures == 3     \* features of one state given directly to _create_states
MaxDialogueTurns == 2 \* ActionExecuted events of one tracker of a batch of short dialogues

(* Program constant *)
MAX_HISTORY_DEFAULT == 5

---------------------------------------------------------------------------
(* Generic helpers *)

Max(a, b) == IF a >= b THEN a ELSE b
Min(a, b) == IF a <= b THEN a ELSE b
Range(s) == {s[k] : k \in 1..Len(s)}

RECURSIVE SeqMax(_)
SeqMax(s) == IF Len(s) = 1 THEN s[1] ELSE Max(s[1], SeqMax(Tail(s)))

RECURSIVE Flatten(_)
Flatten(ss) == IF ss = <<>> THEN <<>> ELSE Head(ss) \o Flatten(Tail(ss))

(* Optional[...] *)
None == [isNone |-> TRUE, items |-> <<>>]
Some(d) == [isNone |-> FALSE, items |-> d]
NoneRef == <<0, 0>>
NoneAction == "None"

---------------------------------------------------------------------------
(* Python dict operations on sequences of <<key, weight>> pairs *)

Keys(d) == [k \in 1..Len(d) |-> d[k][1]]
HasKey(d, key) == \E k \in 1..Len(d) : d[k][1] = key
DictDel(d, key) == SelectSeq(d, LAMBDA p : p[1] # key)
DictSet(d, key, val) ==
    IF HasKey(d, key)
    THEN [k \in 1..Len(d) |-> IF d[k][1] = key THEN <<key, val>> ELSE d[k]]
    ELSE Append(d, <<key, val>>)
DictGet(d, key) == (CHOOSE p \in Range(d) : p[1] = key)[2]

(* str.startswith("intent_") on the feature names of the model *)
IntentFeatures == {"intent_greet", "intent_bye", "intent_thank"}
OtherFeatures == {"slot_x", "prev_action_listen"}
StartsWithIntent(name) == name \in IntentFeatures

---------------------------------------------------------------------------
(* Trackers.  applied_events() is the sequence of ActionExecuted events    *)
(* (other events only shape the states); past_states(domain) is one state  *)
(* before each ActionExecuted event plus the state after the last one.     *)

One == MaxWeight

SGreet == << <<"intent_greet", One>>, <<"slot_x", One>> >>
SGreetR == << <<"slot_x", One>>, <<"intent_greet", One>> >>
SBye == << <<"intent_bye", One>> >>
FinalState == << <<"prev_action_listen", One>> >>

ActionNames == {"utter_greet", "utter_bye"}

Turn(s, a, u) == [state |-> s, action_name |-> a, unpredictable |-> u]

TurnSet ==
    {Turn(SGreet, "utter_greet", FALSE), Turn(SGreetR, "utter_greet", FALSE),
     Turn(SGreet, "utter_bye", FALSE), Turn(SBye, "action_listen", TRUE)}

TrackerOf(turns) ==
    [events |-> [k \in 1..Len(turns) |->
                    [action_name |-> turns[k].action_name,
                     unpredictable |-> turns[k].unpredictable]],
     states |-> [k \in 1..Len(turns) |-> turns[k].state] \o <<FinalState>>]

TurnSeqs(n) == UNION {[1..m -> TurnSet] : m \in 0..n}

RECURSIVE Batches(_, _)
Batches(m, e) ==
    IF m = 0 THEN {<<>>}
    ELSE {<<>>} \cup
         UNION {{<<TrackerOf(ts)>> \o rest : rest \in Batches(m - 1, e - Len(ts))}
                : ts \in TurnSeqs(e)}

TrackerBatches == Batches(MaxTrackers, MaxTurns)

applied_events(tracker) == tracker.events
past_states(tracker) == tracker.states

NumUnpredictable(tracker) ==
    Cardinality({k \in 1..Len(tracker.events) : tracker.events[k].unpredictable})
PredictableActions(tracker) ==
    LET ev == SelectSeq(tracker.events, LAMBDA e : ~e.unpredictable)
    IN [k \in 1..Len(ev) |-> ev[k].action_name]

---------------------------------------------------------------------------
(* TrackerFeaturizer._create_states *)

NoBest == <<>>

(* A variant that compares with >= and so keeps the last of equal maxima *)
RECURSIVE CollapseIntentsLastMax(_, _, _, _, _)
CollapseIntentsLastMax(state, k, bin_state, best_intent, best_intent_prob) ==
    IF k > Len(state)
    THEN IF best_intent # NoBest
         THEN DictSet(bin_state, best_intent[1], One)
         ELSE bin_state
    ELSE LET state_name == state[k][1]
             prob == state[k][2]
         IN IF StartsWithIntent(state_name)
            THEN IF prob >= best_intent_prob
                 THEN CollapseIntentsLastMax(state, k + 1,
                          IF best_intent # NoBest
                          THEN DictDel(bin_state, best_intent[1])
                          ELSE bin_state,
                          <<state_name>>, prob)
                 ELSE CollapseIntentsLastMax(state, k + 1, DictDel(bin_state, state_name),
                                             best_intent, best_intent_prob)
            ELSE CollapseIntentsLastMax(state, k + 1, bin_state, best_intent,
                                        best_intent_prob)

RECURSIVE CollapseIntents(_, _, _, _, _)
CollapseIntents(state, k, bin_state, best_intent, best_intent_prob) ==
    IF k > Len(state)
    THEN IF best_intent # NoBest
         THEN DictSet(bin_state, best_intent[1], One)
         ELSE bin_state
    ELSE LET state_name == state[k][1]
             prob == state[k][2]
         IN IF StartsWithIntent(state_name)
            THEN IF prob > best_intent_prob
                 THEN CollapseIntents(state, k + 1,
                          IF best_intent # NoBest
                          THEN DictDel(bin_state, best_intent[1])
                          ELSE bin_state,
                          <<state_name>>, prob)
                 ELSE CollapseIntents(state, k + 1, DictDel(bin_state, state_name),
                                      best_intent, best_intent_prob)
            ELSE CollapseIntents(state, k + 1, bin_state, best_intent, best_intent_prob)

BinState(state) == CollapseIntents(state, 1, state, NoBest, 0 - One)

CreateStates(tracker, uip, binary) ==
    LET states == past_states(tracker)
    IN IF ~uip /\ ~binary
       THEN [k \in 1..Len(states) |-> BinState(states[k])]
       ELSE [k \in 1..Len(states) |-> states[k]]

(* dict(state): in either branch the dicts of the returned list are new    *)
(* objects, not the ones past_states returned                              *)
StatesCopiedWhenCollapsing(uip, binary) == IF ~uip /\ ~binary THEN TRUE ELSE FALSE

StatesCopied(uip, binary) == IF ~uip /\ ~binary THEN TRUE ELSE TRUE

---------------------------------------------------------------------------
(* The heap of state lists: heap[i][j] is the j-th dict of the list that   *)
(* _create_states returned for tracker i.                                  *)

NewHeap(trackers, uip, binary) ==
    [i \in 1..Len(trackers) |-> CreateStates(trackers[i], uip, binary)]

Deref(heap, ref) == IF ref = NoneRef THEN None ELSE Some(heap[ref[1]][ref[2]])
DerefAll(heap, tas) ==
    [i \in 1..Len(tas) |-> [j \in 1..Len(tas[i]) |-> Deref(heap, tas[i][j])]]

(* The trackers once the call is over: a state that _create_states did not *)
(* copy is the object heap[i][j] that the call worked on                   *)
TrackersAfter(trackers, heap, uip, binary) ==
    [i \in 1..Len(trackers) |->
        IF StatesCopied(uip, binary) THEN trackers[i]
        ELSE [trackers[i] EXCEPT !.states = heap[i]]]

Refs(i, from, to) == [k \in 1..(to - from + 1) |-> <<i, from + k - 1>>]

---------------------------------------------------------------------------
(* FullDialogueTrackerFeaturizer *)

CalculateMaxLen(trackers_as_actions) ==
    IF trackers_as_actions # <<>>
    THEN <<SeqMax([i \in 1..Len(trackers_as_actions) |-> Len(trackers_as_actions[i])])>>
    ELSE <<>>

(* A variant without the override of _pad_states *)
PadStatesBase(var, mlen, states, pad) == states

(* _pad_states of either class; the caller has checked that FullPadRaises  *)
(* is false.  pad is the padding element.                                  *)
FullPadRaises(mlen) == mlen = <<>>
PadStates(var, mlen, states, pad) ==
    IF var = "FullDialogue"
    THEN IF Len(states) < mlen[1]
         THEN states \o [k \in 1..(mlen[1] - Len(states)) |-> pad]
         ELSE states
    ELSE states

(* A variant that tolerates two unpredictable actions *)
FullRaisesAtThird(tracker) == NumUnpredictable(tracker) >= 3

(* The scan of one tracker's events: raises at the second unpredictable one *)
FullRaises(tracker) == NumUnpredictable(tracker) >= 2
FullStates(tracker, i) ==
    LET n == Len(past_states(tracker))
        delete_first_state == NumUnpredictable(tracker) >= 1
        first == IF delete_first_state THEN 2 ELSE 1
    IN Refs(i, first, n - 1)

(* A variant that walks the trackers from the last to the first *)
FullTrainingReversed(trackers) ==
    LET n == Len(trackers)
    IN IF \E i \in 1..n : FullRaises(trackers[i])
       THEN [err |-> "Exception", tas |-> <<>>, acts |-> <<>>]
       ELSE [err |-> "none",
             tas |-> [i \in 1..n |-> FullStates(trackers[n + 1 - i], n + 1 - i)],
             acts |-> [i \in 1..n |-> PredictableActions(trackers[n + 1 - i])]]

FullTraining(trackers) ==
    IF \E i \in 1..Len(trackers) : FullRaises(trackers[i])
    THEN [err |-> "Exception", tas |-> <<>>, acts |-> <<>>]
    ELSE [err |-> "none",
          tas |-> [i \in 1..Len(trackers) |-> FullStates(trackers[i], i)],
          acts |-> [i \in 1..Len(trackers) |-> PredictableActions(trackers[i])]]

FullPrediction(trackers) ==
    [i \in 1..Len(trackers) |-> Refs(i, 1, Len(past_states(trackers[i])))]

---------------------------------------------------------------------------
(* MaxHistoryTrackerFeaturizer *)

ConstructorMaxHistory(p) == IF p = 0 THEN MAX_HISTORY_DEFAULT ELSE p

(* A variant that pads at the end of the window *)
slice_state_history_PadRight(states, slice_length) ==
    LET slice_end == Len(states)
        slice_start == Max(0, slice_end - slice_length)
        padding == [k \in 1..Max(0, slice_length - slice_end) |-> NoneRef]
    IN SubSeq(states, slice_start + 1, slice_end) \o padding

slice_state_history(states, slice_length) ==
    LET slice_end == Len(states)
        slice_start == Max(0, slice_end - slice_length)
        padding == [k \in 1..Max(0, slice_length - slice_end) |-> NoneRef]
    IN padding \o SubSeq(states, slice_start + 1, slice_end)

(* A variant that freezes each state as the ordered tuple of its items *)
HashExampleOrdered(states, action) ==
    LET frozen_states ==
            [k \in 1..Len(states) |->
                [isNone |-> states[k].isNone, items |-> {<<1, states[k].items>>}]]
        frozen_actions == <<action>>
    IN <<frozen_states, frozen_actions>>

(* hash() is taken as collision-free: the hashed tuple stands for its hash *)
HashExample(states, action) ==
    LET frozen_states ==
            [k \in 1..Len(states) |->
                [isNone |-> states[k].isNone, items |-> Range(states[k].items)]]
        frozen_actions == <<action>>
    IN <<frozen_states, frozen_actions>>

RECURSIVE MaxHistoryEvents(_, _, _, _, _, _, _)
MaxHistoryEvents(trackers, heap, mh, rd, i, j, acc) ==
    IF i > Len(trackers) THEN acc
    ELSE IF j > Len(applied_events(trackers[i]))
    THEN MaxHistoryEvents(trackers, heap, mh, rd, i + 1, 1, acc)
    ELSE LET event == applied_events(trackers[i])[j]
             idx == j - 1
             sliced_states == slice_state_history(Refs(i, 1, idx + 1), mh)
             hashed == HashExample([k \in 1..Len(sliced_states) |->
                                       Deref(heap, sliced_states[k])],
                                   event.action_name)
             emitted == [tas |-> Append(acc.tas, sliced_states),
                         acts |-> Append(acc.acts, <<event.action_name>>),
                         hashed_examples |->
                             IF rd THEN acc.hashed_examples \cup {hashed}
                             ELSE acc.hashed_examples]
         IN IF event.unpredictable
            THEN MaxHistoryEvents(trackers, heap, mh, rd, i, j + 1, acc)
            ELSE IF rd /\ hashed \in acc.hashed_examples
            THEN MaxHistoryEvents(trackers, heap, mh, rd, i, j + 1, acc)
            ELSE MaxHistoryEvents(trackers, heap, mh, rd, i, j + 1, emitted)

MaxHistoryTraining(trackers, heap, mh, rd) ==
    LET out == MaxHistoryEvents(trackers, heap, mh, rd, 1, 1,
                   [tas |-> <<>>, acts |-> <<>>, hashed_examples |-> {}])
    IN [err |-> "none", tas |-> out.tas, acts |-> out.acts]

MaxHistoryPrediction(trackers, mh) ==
    [i \in 1..Len(trackers) |->
        slice_state_history(Refs(i, 1, Len(past_states(trackers[i]))), mh)]

---------------------------------------------------------------------------
(* TrackerFeaturizer._postprocess_trackers_as_states: deletes in place     *)

HeapDel(heap, ref, key) ==
    [heap EXCEPT ![ref[1]][ref[2]] = DictDel(@, key)]

RECURSIVE PostprocessStates(_, _, _, _, _)
PostprocessStates(heap, tas, i, j, previous_intent) ==
    IF i > Len(tas) THEN heap
    ELSE IF j > Len(tas[i]) THEN PostprocessStates(heap, tas, i + 1, 1, <<>>)
    ELSE IF tas[i][j] = NoneRef \/ Deref(heap, tas[i][j]).items = <<>>
    THEN PostprocessStates(heap, tas, i, j + 1, previous_intent)
    ELSE LET state_keys == Keys(Deref(heap, tas[i][j]).items)
             current_intent == SelectSeq(state_keys, StartsWithIntent)
         IN IF current_intent = <<>>
            THEN PostprocessStates(heap, tas, i, j + 1, previous_intent)
            ELSE IF <<current_intent[1]>> = previous_intent
            THEN PostprocessStates(HeapDel(heap, tas[i][j], current_intent[1]),
                                   tas, i, j + 1, previous_intent)
            ELSE PostprocessStates(heap, tas, i, j + 1, <<current_intent[1]>>)

PostprocessTrackersAsStates(heap, tas) == PostprocessStates(heap, tas, 1, 1, <<>>)

---------------------------------------------------------------------------
(* SingleStateFeaturizer / BOWSingleStateFeaturizer.  The vocabulary is    *)
(* domain.input_states; a vector has one count per vocabulary entry.       *)

Vocabulary == IntentFeatures \cup OtherFeatures
DomainActions == ActionNames \cup {"action_listen"}

encode(state) ==
    IF state.isNone
    THEN [f \in Vocabulary |-> 0 - 1]
    ELSE [f \in Vocabulary |-> IF HasKey(state.items, f) THEN 1 ELSE 0]

action_as_one_hot(action) ==
    IF action = NoneAction
    THEN [a \in DomainActions |-> 0 - 1]
    ELSE [a \in DomainActions |-> IF a = action THEN 1 ELSE 0]

---------------------------------------------------------------------------
(* TrackerFeaturizer._featurize_states and _featurize_labels               *)

NoFeatures == [err |-> "none", fed |-> <<>>, X |-> <<>>, true_lengths |-> <<>>,
               encoded |-> FALSE]

(* sf: state_featurizer is set; cal: it has been trained *)
FeaturizeStates(var, mlen, sf, cal, trackers_as_states) ==
    LET n == Len(trackers_as_states)
        pads == n > 1
        padded == [i \in 1..n |->
                     IF pads THEN PadStates(var, mlen, trackers_as_states[i], None)
                     ELSE trackers_as_states[i]]
    IN IF n = 0 THEN NoFeatures
       ELSE IF pads /\ var = "FullDialogue" /\ FullPadRaises(mlen)
       THEN [NoFeatures EXCEPT !.err = "TypeError"]
       ELSE IF \A i \in 1..n : padded[i] = <<>>
       THEN [NoFeatures EXCEPT !.fed = padded, !.X = padded,
                               !.true_lengths = [i \in 1..n |-> 0]]
       ELSE IF ~sf
       THEN [NoFeatures EXCEPT !.err = "AttributeError"]
       ELSE IF ~cal
       THEN [NoFeatures EXCEPT !.err = "EncoderError", !.encoded = TRUE]
       ELSE [err |-> "none",
             fed |-> padded,
             X |-> [i \in 1..n |-> [j \in 1..Len(padded[i]) |-> encode(padded[i][j])]],
             true_lengths |-> [i \in 1..n |-> Len(trackers_as_states[i])],
             encoded |-> TRUE]

FeaturizeLabels(var, mlen, trackers_as_actions) ==
    LET n == Len(trackers_as_actions)
        padded == [i \in 1..n |->
                     IF n > 1 THEN PadStates(var, mlen, trackers_as_actions[i], NoneAction)
                     ELSE trackers_as_actions[i]]
        labels == [i \in 1..n |->
                     [j \in 1..Len(padded[i]) |-> action_as_one_hot(padded[i][j])]]
    IN IF var = "MaxHistory"
       THEN [i \in 1..n |-> labels[i][1]]
       ELSE labels

---------------------------------------------------------------------------
(* The calls.  A call is one step; the caller then takes the result.       *)
(* The locals of a call are bound with \E over a one-element set.          *)

(* A call is made when the caller holds no result of an earlier one *)
Idle == op = "none"

NoRet == [err |-> "none", tas |-> <<>>, acts |-> <<>>, fed |-> <<>>,
          X |-> <<>>, y |-> <<>>, true_lengths |-> <<>>, trackers |-> <<>>]

TrainingStatesAndActions(var, mh, rd, trackers, heap) ==
    IF var = "FullDialogue"
    THEN FullTraining(trackers)
    ELSE MaxHistoryTraining(trackers, heap, mh, rd)

PredictionStates(var, mh, trackers) ==
    IF var = "FullDialogue"
    THEN FullPrediction(trackers)
    ELSE MaxHistoryPrediction(trackers, mh)

(* TrackerFeaturizer.featurize_trackers *)
FeaturizeTrackers(trackers) ==
    /\ op' = "featurize_trackers"
    /\ arg' = trackers
    /\ UNCHANGED <<config, is_binary_training, encode_uncalibrated>>
    /\ IF ~state_featurizer
       THEN /\ ret' = [NoRet EXCEPT !.err = "ValueError", !.trackers = trackers]
            /\ UNCHANGED <<calibrated, max_len>>
       ELSE \E heap \in {NewHeap(trackers, use_intent_probabilities, TRUE)} :
            \E t \in {TrainingStatesAndActions(variant, max_history,
                                              remove_duplicates, trackers, heap)} :
            \E new_len \in {IF variant = "FullDialogue" /\ t.err = "none"
                            THEN CalculateMaxLen(t.acts)
                            ELSE max_len} :
            \E after \in {PostprocessTrackersAsStates(heap, t.tas)} :
            \E f \in {FeaturizeStates(variant, new_len, TRUE, TRUE,
                                      DerefAll(after, t.tas))} :
               /\ calibrated' = TRUE
               /\ max_len' = new_len
               /\ ret' = IF t.err # "none"
                         THEN [NoRet EXCEPT !.err = t.err,
                                            !.trackers = TrackersAfter(trackers, heap,
                                                use_intent_probabilities, TRUE)]
                         ELSE [err |-> f.err,
                               tas |-> DerefAll(heap, t.tas),
                               acts |-> t.acts,
                               fed |-> f.fed,
                               X |-> f.X,
                               y |-> FeaturizeLabels(variant, new_len, t.acts),
                               true_lengths |-> f.true_lengths,
                               trackers |-> TrackersAfter(trackers, after,
                                                use_intent_probabilities, TRUE)]

(* TrackerFeaturizer.create_X *)
CreateX(trackers) ==
    /\ op' = "create_X"
    /\ arg' = trackers
    /\ UNCHANGED <<config, is_binary_training, calibrated, max_len>>
    /\ \E heap \in {NewHeap(trackers, use_intent_probabilities, FALSE)} :
       \E tas \in {PredictionStates(variant, max_history, trackers)} :
       \E f \in {FeaturizeStates(variant, max_len, state_featurizer, calibrated,
                                 DerefAll(heap, tas))} :
          /\ ret' = [NoRet EXCEPT !.err = f.err, !.tas = DerefAll(heap, tas),
                                  !.fed = f.fed, !.X = f.X,
                                  !.trackers = TrackersAfter(trackers, heap,
                                                   use_intent_probabilities, FALSE)]
          /\ encode_uncalibrated' = (f.encoded /\ ~calibrated)

(* The caller takes what the call returned or raised *)
Return ==
    /\ op # "none"
    /\ op' = "none"
    /\ arg' = <<>>
    /\ ret' = NoRet
    /\ encode_uncalibrated' = FALSE
    /\ UNCHANGED <<config, is_binary_training, calibrated, max_len>>

(* The featurizer after construction.  max_history is given or defaults;   *)
(* FullDialogueTrackerFeaturizer takes its state featurizer as a required  *)
(* argument, MaxHistoryTrackerFeaturizer defaults it to None;              *)
(* use_intent_probabilities is left at its default, and the states of      *)
(* TurnSet carry at most one intent, of weight 1.0.                        *)
Init ==
    /\ variant \in {"FullDialogue", "MaxHistory"}
    /\ \E p \in 0..MaxHistoryBound :
          max_history = IF variant = "MaxHistory" THEN ConstructorMaxHistory(p) ELSE 0
    /\ remove_duplicates \in (IF variant = "MaxHistory" THEN BOOLEAN ELSE {FALSE})
    /\ use_intent_probabilities = FALSE
    /\ state_featurizer \in (IF variant = "MaxHistory" THEN BOOLEAN ELSE {TRUE})
    /\ calibrated = FALSE
    /\ max_len = <<>>
    /\ op = "none"
    /\ arg = <<>>
    /\ is_binary_training = FALSE
    /\ ret = NoRet
    /\ encode_uncalibrated = FALSE

Next ==
    \/ Idle /\ \E trackers \in TrackerBatches : FeaturizeTrackers(trackers)
    \/ Idle /\ \E trackers \in TrackerBatches : CreateX(trackers)
    \/ Return

Spec == Init /\ [][Next]_vars

---------------------------------------------------------------------------
(* _create_states called directly on a tracker with one state, whose       *)
(* features carry any probability.                                         *)

FeatureNames == IntentFeatures \cup {"slot_x"}
Weights == 0..MaxWeight

IsDict(d) == \A k1, k2 \in 1..Len(d) : d[k1][1] = d[k2][1] => k1 = k2
AnyStates ==
    UNION {{d \in [1..n -> FeatureNames \X Weights] : IsDict(d)}
           : n \in 0..Min(MaxFeatures, Cardinality(FeatureNames))}

OneStateTracker(state) == [events |-> <<>>, states |-> <<state>>]

CreateStatesCall(tracker, binary) ==
    /\ op' = "_create_states"
    /\ arg' = <<tracker>>
    /\ is_binary_training' = binary
    /\ LET states == CreateStates(tracker, use_intent_probabilities, binary)
       IN ret' = [NoRet EXCEPT !.tas = <<[k \in 1..Len(states) |-> Some(states[k])]>>,
                               !.trackers = TrackersAfter(<<tracker>>, <<states>>,
                                                use_intent_probabilities, binary)]
    /\ UNCHANGED <<config, calibrated, max_len, encode_uncalibrated>>

InitCreateStates ==
    /\ variant \in {"FullDialogue", "MaxHistory"}
    /\ max_history = IF variant = "MaxHistory" THEN ConstructorMaxHistory(0) ELSE 0
    /\ remove_duplicates = (variant = "MaxHistory")
    /\ use_intent_probabilities \in BOOLEAN
    /\ state_featurizer = TRUE
    /\ calibrated = FALSE
    /\ max_len = <<>>
    /\ op = "none"
    /\ arg = <<>>
    /\ is_binary_training = FALSE
    /\ ret = NoRet
    /\ encode_uncalibrated = FALSE

NextCreateStates ==
    \/ Idle /\ \E state \in AnyStates, binary \in BOOLEAN :
                  CreateStatesCall(OneStateTracker(state), binary)
    \/ Return

SpecCreateStates == InitCreateStates /\ [][NextCreateStates]_vars

---------------------------------------------------------------------------
(* featurize_trackers on batches of short dialogues in which a turn may    *)
(* carry no intent: a turn's state holds intent_greet and slot_x, or       *)
(* slot_x alone, and every action is predictable.                          *)

SSlot == << <<"slot_x", One>> >>

DialogueTurnSet ==
    {Turn(SGreet, "utter_greet", FALSE), Turn(SSlot, "utter_greet", FALSE)}

ShortDialogues ==
    {TrackerOf(ts) : ts \in UNION {[1..m -> DialogueTurnSet] : m \in 0..MaxDialogueTurns}}

DialogueBatches == UNION {[1..n -> ShortDialogues] : n \in 0..MaxTrackers}

NextDialogues ==
    \/ Idle /\ \E trackers \in DialogueBatches : FeaturizeTrackers(trackers)
    \/ Return

SpecDialogues == Init /\ [][NextDialogues]_vars

---------------------------------------------------------------------------
(* Vocabulary of the properties *)

Trained == op = "featurize_trackers" /\ ret.err = "none" /\ state_featurizer
IsFull == variant = "FullDialogue"
IsMaxHistory == variant = "MaxHistory"

(* 0-based positions, counted in ActionExecuted events, of the predictable ones *)
PredictablePositions(tracker) ==
    {k \in 0..(Len(tracker.events) - 1) : ~tracker.events[k + 1].unpredictable}

(* The window of length mh over the prefix states[0..k] *)
ExpectedWindow(states, k, mh) ==
    LET npad == Max(0, mh - (k + 1))
        real == Min(k + 1, mh)
    IN [p \in 1..mh |-> IF p <= npad THEN None
                        ELSE Some(states[(k + 1) - real + (p - npad)])]

NoneOnlyLeading(window) ==
    \A p, q \in 1..Len(window) : (p < q /\ ~window[p].isNone) => ~window[q].isNone

RealTurns(window) == Cardinality({p \in 1..Len(window) : ~window[p].isNone})

(* C1: every window of the max-history featurizer, from training and from  *)
(* prediction, has exactly max_history entries: the last min(k+1,          *)
(* max_history) states of the prefix up to action position k, in order,    *)
(* after max(0, max_history-(k+1)) None entries, and no None after a state *)
C1_WindowIsMaxHistory ==
    /\ (Trained /\ IsMaxHistory) =>
          /\ \A e \in 1..Len(ret.tas) :
                /\ Len(ret.tas[e]) = max_history
                /\ NoneOnlyLeading(ret.tas[e])
                /\ \E i \in 1..Len(arg) : \E k \in PredictablePositions(arg[i]) :
                      /\ ret.tas[e] = ExpectedWindow(past_states(arg[i]), k, max_history)
                      /\ ret.acts[e] = <<arg[i].events[k + 1].action_name>>
          /\ ~remove_duplicates =>
                \A i \in 1..Len(arg) : \A k \in PredictablePositions(arg[i]) :
                   \E e \in 1..Len(ret.tas) :
                      /\ ret.tas[e] = ExpectedWindow(past_states(arg[i]), k, max_history)
                      /\ ret.acts[e] = <<arg[i].events[k + 1].action_name>>
    /\ (op = "create_X" /\ IsMaxHistory) =>
          /\ Len(ret.tas) = Len(arg)
          /\ \A i \in 1..Len(arg) :
                /\ Len(ret.tas[i]) = max_history
                /\ NoneOnlyLeading(ret.tas[i])
                /\ ret.tas[i] =
                      ExpectedWindow(CreateStates(arg[i], use_intent_probabilities, FALSE),
                                     Len(arg[i].events), max_history)

(* A training call that emitted a left-padded window and a window that     *)
(* dropped the oldest state of a three-action dialogue                     *)
C1_Witness ==
    /\ Trained /\ IsMaxHistory /\ max_history = 2
    /\ \E e1, e2 \in 1..Len(ret.tas) : \E i \in 1..Len(arg) :
          /\ ret.tas[e1][1].isNone /\ ~ret.tas[e1][2].isNone
          /\ Len(arg[i].events) = 3
          /\ ret.tas[e2] = <<Some(arg[i].states[2]), Some(arg[i].states[3])>>
          /\ arg[i].states[1] # arg[i].states[3]

(* Every (window, label) pair of a batch in tracker order and, within a    *)
(* tracker, in event order; tr is the tracker the pair comes from          *)
TrackerExamples(trackers, i, mh) ==
    LET ks == SelectSeq([k \in 1..Len(trackers[i].events) |-> k - 1],
                        LAMBDA k : k \in PredictablePositions(trackers[i]))
    IN [n \in 1..Len(ks) |->
          [win |-> ExpectedWindow(past_states(trackers[i]), ks[n], mh),
           action |-> trackers[i].events[ks[n] + 1].action_name,
           tr |-> i]]

AllExamples(trackers, mh) ==
    Flatten([i \in 1..Len(trackers) |-> TrackerExamples(trackers, i, mh)])

(* Windows compared position by position as unordered key/value sets or None *)
SameWindow(w1, w2) ==
    /\ Len(w1) = Len(w2)
    /\ \A p \in 1..Len(w1) :
          /\ w1[p].isNone = w2[p].isNone
          /\ Range(w1[p].items) = Range(w2[p].items)

SameExample(a, b) == a.action = b.action /\ SameWindow(a.win, b.win)

FirstOccurrences(all) ==
    SelectSeq([p \in 1..Len(all) |-> p],
              LAMBDA p : \A q \in 1..(p - 1) : ~SameExample(all[q], all[p]))

(* C2: with remove_duplicates, one training call emits exactly the pairs   *)
(* that differ from every pair before them in the batch (the first         *)
(* occurrences, in order), so no pair is emitted twice, whether its        *)
(* repetition comes from the same tracker or from another one              *)
C2_DuplicatesEmittedOnce ==
    (Trained /\ IsMaxHistory /\ remove_duplicates) =>
        LET all == AllExamples(arg, max_history)
            keep == FirstOccurrences(all)
        IN /\ Len(ret.tas) = Len(keep)
           /\ \A e \in 1..Len(keep) :
                 /\ ret.tas[e] = all[keep[e]].win
                 /\ ret.acts[e] = <<all[keep[e]].action>>
           /\ \A e1, e2 \in 1..Len(ret.tas) :
                 (SameWindow(ret.tas[e1], ret.tas[e2]) /\ ret.acts[e1] = ret.acts[e2])
                    => e1 = e2

(* Two dialogues give the same pair, written with different key orders,    *)
(* and a pair with the same window and another label is emitted as well    *)
C2_Witness ==
    /\ Trained /\ IsMaxHistory /\ remove_duplicates /\ Len(arg) = 2
    /\ LET all == AllExamples(arg, max_history)
       IN /\ \E p, q \in 1..Len(all) :
                /\ p < q /\ all[p].tr # all[q].tr
                /\ SameExample(all[p], all[q]) /\ all[p].win # all[q].win
          /\ \E p, q \in 1..Len(all) :
                /\ SameWindow(all[p].win, all[q].win) /\ all[p].action # all[q].action
          /\ Len(ret.tas) = 2

(* C3: after featurize_trackers of the full-dialogue featurizer on two or  *)
(* more dialogues, max_len is the largest number of predictable actions of *)
(* a dialogue of the batch, and every state sequence and label sequence    *)
(* has max_len turns: the dialogue's own, in order, then only None         *)
C3_PaddedToLongest ==
    (Trained /\ IsFull /\ Len(arg) >= 2) =>
        /\ max_len # <<>>
        /\ \E i \in 1..Len(arg) : max_len[1] = Len(PredictableActions(arg[i]))
        /\ \A i \in 1..Len(arg) : max_len[1] >= Len(PredictableActions(arg[i]))
        /\ Len(ret.fed) = Len(arg) /\ Len(ret.X) = Len(arg) /\ Len(ret.y) = Len(arg)
        /\ \A i \in 1..Len(arg) :
              LET actions == PredictableActions(arg[i])
                  n == Len(actions)
                  d == IF NumUnpredictable(arg[i]) >= 1 THEN 1 ELSE 0
              IN /\ Len(ret.fed[i]) = max_len[1]
                 /\ Len(ret.X[i]) = max_len[1]
                 /\ Len(ret.y[i]) = max_len[1]
                 /\ \A j \in 1..max_len[1] :
                       IF j <= n
                       THEN /\ ~ret.fed[i][j].isNone
                            /\ ret.tas[i][j] = Some(past_states(arg[i])[j + d])
                            /\ ret.X[i][j] = encode(ret.fed[i][j])
                            /\ ret.X[i][j] # encode(None)
                            /\ ret.y[i][j] = action_as_one_hot(actions[j])
                       ELSE /\ ret.fed[i][j].isNone
                            /\ ret.X[i][j] = encode(None)
                            /\ ret.y[i][j] = action_as_one_hot(NoneAction)

(* A batch of a two-action dialogue and a one-action dialogue *)
C3_Witness ==
    /\ Trained /\ IsFull /\ Len(arg) = 2
    /\ Len(PredictableActions(arg[1])) = 1
    /\ Len(PredictableActions(arg[2])) = 2
    /\ max_len = <<2>>
    /\ ret.fed[1][2].isNone

(* C4: in either variant, every batch that featurize_trackers or create_X  *)
(* hands to the numeric layer holds examples of one length                 *)
C4_NoRaggedBatch ==
    (op \in {"featurize_trackers", "create_X"} /\ ret.err = "none") =>
        \A i1, i2 \in 1..Len(ret.X) : Len(ret.X[i1]) = Len(ret.X[i2])

(* C5: lengths[i] of a training batch is the number of turns of example i  *)
(* that are not None, in either variant                                    *)
C5_LengthsCountRealTurns ==
    Trained =>
        \A i \in 1..Len(ret.true_lengths) :
            ret.true_lengths[i] = RealTurns(ret.fed[i])

HasTwoUnpredictable(trackers) ==
    \E i \in 1..Len(trackers) : NumUnpredictable(trackers[i]) >= 2

(* C7: a full-dialogue training call on a batch with a tracker of two or   *)
(* more unpredictable actions ends with an error, returns no example of    *)
(* any tracker, and leaves max_len as it was before the call               *)
C7_TwoUnpredictableAborts ==
    [][(op' = "featurize_trackers" /\ IsFull /\ HasTwoUnpredictable(arg')) =>
          /\ ret'.err = "Exception"
          /\ ret'.tas = <<>> /\ ret'.acts = <<>>
          /\ ret'.X = <<>> /\ ret'.y = <<>> /\ ret'.true_lengths = <<>>
          /\ max_len' = max_len]_vars

(* The call is rejected after an earlier call had set max_len; the tracker *)
(* at fault is the second of the batch, after a valid one with an action   *)
C7_Witness ==
    /\ op = "featurize_trackers" /\ IsFull /\ ret.err = "Exception"
    /\ max_len = <<1>>
    /\ Len(arg) = 2
    /\ NumUnpredictable(arg[1]) = 0 /\ Len(arg[1].events) = 1
    /\ NumUnpredictable(arg[2]) = 2

(* C8: the full-dialogue training call does not accept a tracker whose     *)
(* only unpredictable action comes after a predictable one                 *)
UnpredictableAfterPredictable(tracker) ==
    \E k1, k2 \in 1..Len(tracker.events) :
        /\ k1 < k2
        /\ ~tracker.events[k1].unpredictable
        /\ tracker.events[k2].unpredictable

C8_UnpredictableOnlyFirst ==
    (op = "featurize_trackers" /\ IsFull
       /\ \E i \in 1..Len(arg) : UnpredictableAfterPredictable(arg[i]))
    => ret.err # "none"

(* C9: the max-history training call aborts with an error on a batch that  *)
(* holds a dialogue with two or more unpredictable actions                 *)
C9_MaxHistoryTwoUnpredictableAborts ==
    (op = "featurize_trackers" /\ IsMaxHistory /\ HasTwoUnpredictable(arg))
    => ret.err # "none"

(* C10: encode is never invoked on an absent or untrained state            *)
(* featurizer; a call that has states to encode in that situation ends in  *)
(* the configuration error that names the missing prerequisite             *)
C10_EncodeOnlyWhenCalibrated ==
    /\ ~encode_uncalibrated
    /\ (op = "featurize_trackers" /\ ~state_featurizer) => ret.err = "ValueError"
    /\ (op = "create_X" /\ arg # <<>> /\ (~state_featurizer \/ ~calibrated))
          => ret.err = "ValueError"

IntentPositions(d) == {k \in 1..Len(d) : StartsWithIntent(d[k][1])}

---------------------------------------------------------------------------
(* What the calls return on a featurizer of the same configuration whose   *)
(* max_len was left at mlen by earlier calls                               *)

(* The values of max_len that a training call of the full-dialogue         *)
(* featurizer leaves behind                                                *)
TrainedMaxLens ==
    {CalculateMaxLen(FullTraining(b).acts) :
        b \in {b \in TrackerBatches : FullTraining(b).err = "none"}}

CreateXOn(mlen, trackers) ==
    FeaturizeStates(variant, mlen, state_featurizer, calibrated,
                    DerefAll(NewHeap(trackers, use_intent_probabilities, FALSE),
                             PredictionStates(variant, max_history, trackers)))

FeaturizeTrackersOn(mlen, trackers) ==
    LET heap == NewHeap(trackers, use_intent_probabilities, TRUE)
        t == TrainingStatesAndActions(variant, max_history, remove_duplicates,
                                      trackers, heap)
        new_len == IF variant = "FullDialogue" /\ t.err = "none"
                   THEN CalculateMaxLen(t.acts) ELSE mlen
        after == PostprocessTrackersAsStates(heap, t.tas)
        f == FeaturizeStates(variant, new_len, TRUE, TRUE, DerefAll(after, t.tas))
    IN IF t.err # "none"
       THEN [err |-> t.err, X |-> <<>>, y |-> <<>>, true_lengths |-> <<>>]
       ELSE [err |-> f.err, X |-> f.X,
             y |-> FeaturizeLabels(variant, new_len, t.acts),
             true_lengths |-> f.true_lengths]

EarlierMaxLens == IF IsFull THEN TrainedMaxLens ELSE {<<>>}

(* C11: what featurize_trackers and create_X return for given trackers on  *)
(* a trained featurizer of a given configuration is the same whatever      *)
(* max_len earlier calls on that featurizer have left behind               *)
C11_ResultIndependentOfEarlierCalls ==
    /\ (op = "create_X" /\ state_featurizer /\ calibrated) =>
          \A mlen \in EarlierMaxLens :
             /\ ret.err = CreateXOn(mlen, arg).err
             /\ ret.X = CreateXOn(mlen, arg).X
    /\ (op = "featurize_trackers" /\ state_featurizer) =>
          \A mlen \in EarlierMaxLens :
             LET other == FeaturizeTrackersOn(mlen, arg)
             IN /\ ret.err = other.err /\ ret.X = other.X /\ ret.y = other.y
                /\ ret.true_lengths = other.true_lengths

RECURSIVE IsSubSeq(_, _)
IsSubSeq(s, t) ==
    IF s = <<>> THEN TRUE
    ELSE IF t = <<>> THEN FALSE
    ELSE IF Head(s) = Head(t) THEN IsSubSeq(Tail(s), Tail(t))
    ELSE IsSubSeq(s, Tail(t))

(* The (window, label) pairs of a batch and those a training call emitted *)
BatchPairs(trackers, mh) ==
    LET all == AllExamples(trackers, mh)
    IN [p \in 1..Len(all) |-> <<all[p].win, all[p].action>>]
EmittedPairs == [e \in 1..Len(ret.tas) |-> <<ret.tas[e], ret.acts[e][1]>>]

(* C12: full-dialogue training emits one state sequence, label sequence    *)
(* and length per tracker, the i-th ones being those of the i-th tracker;  *)
(* create_X of either variant emits one sequence per tracker, the i-th one *)
(* encoding the states of the i-th tracker; max-history training emits its *)
(* pairs in the order of the batch: tracker by tracker and, within a       *)
(* tracker, event by event (all of them without remove_duplicates)         *)
C12_OutputInTrackerOrder ==
    /\ (Trained /\ IsFull) =>
          /\ Len(ret.tas) = Len(arg) /\ Len(ret.acts) = Len(arg)
          /\ Len(ret.X) = Len(arg) /\ Len(ret.y) = Len(arg)
          /\ Len(ret.true_lengths) = Len(arg)
          /\ \A i \in 1..Len(arg) :
                LET actions == PredictableActions(arg[i])
                    d == IF NumUnpredictable(arg[i]) >= 1 THEN 1 ELSE 0
                    n == Len(arg[i].events) - d
                IN /\ ret.acts[i] = actions
                   /\ Len(ret.tas[i]) = n
                   /\ ret.true_lengths[i] = n
                   /\ \A j \in 1..n :
                         ret.tas[i][j] = Some(past_states(arg[i])[j + d])
                   /\ \A j \in 1..Len(actions) :
                         ret.y[i][j] = action_as_one_hot(actions[j])
    /\ (op = "create_X" /\ ret.err = "none") =>
          /\ Len(ret.tas) = Len(arg) /\ Len(ret.X) = Len(arg)
          /\ \A i \in 1..Len(arg) :
                LET states == CreateStates(arg[i], use_intent_probabilities, FALSE)
                    n == Len(states)
                    k == IF IsFull THEN n ELSE Min(n, max_history)
                    w == Len(ret.tas[i])
                IN /\ w >= k
                   /\ \A j \in 1..k :
                         /\ ret.tas[i][w - k + j] = Some(states[n - k + j])
                         /\ ret.X[i][w - k + j] = encode(Some(states[n - k + j]))
    /\ (Trained /\ IsMaxHistory) =>
          /\ Len(ret.acts) = Len(ret.tas) /\ Len(ret.y) = Len(ret.tas)
          /\ IsSubSeq(EmittedPairs, BatchPairs(arg, max_history))
          /\ ~remove_duplicates => EmittedPairs = BatchPairs(arg, max_history)
          /\ \A e \in 1..Len(ret.tas) : ret.y[e] = action_as_one_hot(ret.acts[e][1])

(* A full-dialogue training batch of two trackers with different actions,  *)
(* the first one the longer                                                *)
C12_Witness ==
    /\ Trained /\ IsFull /\ Len(arg) = 2
    /\ ret.acts[1] = <<"utter_greet", "utter_bye">>
    /\ ret.acts[2] = <<"utter_bye">>
    /\ ret.true_lengths = <<2, 1>>

IntentOf(d) == SelectSeq(Keys(d), StartsWithIntent)

(* Turn j of an example as compression leaves it when it looks at the      *)
(* turns of that example only: without its intent if turn j-1 of the       *)
(* example carried that intent, as it was otherwise                        *)
CompressedTurn(example, j) ==
    LET turn == example[j]
        repeated == /\ j > 1
                    /\ ~turn.isNone /\ IntentOf(turn.items) # <<>>
                    /\ ~example[j - 1].isNone
                    /\ IntentOf(example[j - 1].items) = IntentOf(turn.items)
    IN IF repeated THEN Some(DictDel(turn.items, IntentOf(turn.items)[1])) ELSE turn

(* C14: in every example that featurize_trackers goes on to encode, of     *)
(* either variant, a turn has lost its intent feature if and only if the   *)
(* turn before it in the same example carried that intent before           *)
(* compression, and is otherwise as it was; so the first turn of an        *)
(* example keeps its intent and an example is compressed the same way      *)
(* whatever other examples share its dialogue                              *)
C14_CompressionPerExample ==
    Trained =>
        \A e \in 1..Len(ret.tas) : \A j \in 1..Len(ret.tas[e]) :
            ret.fed[e][j] = CompressedTurn(ret.tas[e], j)

(* C15: with remove_duplicates, the examples that a max-history training   *)
(* call goes on to encode, as they are after deduplication and then        *)
(* compression, hold no two examples with the same window contents and the *)
(* same action label                                                       *)
C15_EncodedBatchHasNoDuplicates ==
    (Trained /\ IsMaxHistory /\ remove_duplicates) =>
        \A e1, e2 \in 1..Len(ret.fed) :
            (SameWindow(ret.fed[e1], ret.fed[e2]) /\ ret.acts[e1] = ret.acts[e2])
                => e1 = e2

=============================================================================
